---- MODULE Spec2Model ----
(***************************************************************************)
(* Pattern extraction of the image-text extractor (server/openai.ts):      *)
(* analyzeImage sends one vision request, then runs six regular            *)
(* expressions over the transcribed text with extractPatterns.             *)
(*                                                                         *)
(* A text is a sequence of one-character strings.  A regular expression    *)
(* is a tree of nodes; Ends gives, for a node and a start position, the    *)
(* end positions of its matches in the priority order of a backtracking    *)
(* matcher (greedy quantifiers, alternatives left to right), so the head   *)
(* of the list is the match JavaScript reports.                            *)
(*                                                                         *)
(* Around it: the prompt analyzeImage builds, the variant of analyzeImage  *)
(* that answers with fixed data when no API key is set (KeySpec), the      *)
(* /api/extract handler that analyses the files of a request one by one    *)
(* (RouteSpec), and the Home page with its tag list (HomeSpec).            *)
(***************************************************************************)
EXTENDS Integers, Sequences, FiniteSets, TLC

VARIABLES
  pc,      \* per call: "idle", "awaiting" (the vision request), "returned", "failed"
  vision,  \* per call: how the vision request settled: "none", "resolved", "rejected"
  result,  \* per call: the ExtractedData returned, as a sequence of length 0 or 1
  prompt,  \* per call: the prompt sent with the vision request, <<>> before it
  apiKey,  \* process.env.OPENAI_API_KEY is set
  \* the /api/extract handler (server/routes.ts)
  reqFiles,      \* req.files: the originalname of each uploaded file
  reqBody,       \* req.body.requirements
  rpc,           \* "idle", "loop" (inside the for loop), "done" (response sent)
  pos,           \* the index in req.files of the file in hand
  routeResults,  \* the handler's local array `results`
  res,           \* the response sent: [status, body], <<>> before
  \* the Home page (client/src/pages/Home.tsx) with its TagManager
  results,        \* useState<ExtractionResult[]>
  selectedIndex,  \* useState(0)
  tags,           \* useState<string[]>
  isLoading,      \* useState(false)
  newTag,         \* the TagManager's input field
  last,           \* the handler that ran last, with its argument
  progress,       \* useState(0)
  dropped,        \* the onDrop calls of ImageUpload that await their previews
  inflight,       \* the handleImageUpload calls that await their fetch
  \* the /api/extract handler that stores what it extracts (part_001)
  reqUser,        \* req.user: the id of the user of the session, 0 without
  extractions,    \* the rows of the table `extractions`
  ipc,            \* the insert of the file in hand: "none", "inserting", "saved", "failed"
  \* registration with e-mail verification (part_005, part_002)
  clock,                \* new Date(), in hours
  users,                \* the rows of the table `users`; the id is the index
  verification_tokens,  \* the rows of the table `verification_tokens`
  issuedAt,             \* per token generated so far: the hour it was generated
  verificationLimiter,  \* per token: the points consumed in the running hour
  sessionUser,          \* req.session.passport.user of the browser, 0 without
  spent,                \* the tokens /verify-email has accepted or rejected as expired
  authReq,              \* the request handled last
  authRes               \* the response to it: [status, message]

\* the state of the analyzeImage calls
callVars == <<pc, vision, result, prompt>>

\* the state of the /api/extract handler
routeVars == <<reqFiles, reqBody, rpc, pos, routeResults, res>>

\* the state of the Home page
homeVars == <<results, selectedIndex, tags, isLoading, newTag, last, progress, dropped, inflight>>

\* what the storing handler adds to the state of the /api/extract handler
storeVars == <<reqUser, extractions, ipc>>

\* the state of the registration and verification routes
authVars == <<clock, users, verification_tokens, issuedAt, verificationLimiter,
              sessionUser, spent, authReq, authRes>>

vars == <<callVars, apiKey, routeVars, homeVars, storeVars, authVars>>

(***************************************************************************)
(* Characters                                                              *)
(***************************************************************************)
LowerSeq ==
  <<"a","b","c","d","e","f","g","h","i","j","k","l","m",
    "n","o","p","q","r","s","t","u","v","w","x","y","z">>

UpperSeq ==
  <<"A","B","C","D","E","F","G","H","I","J","K","L","M",
    "N","O","P","Q","R","S","T","U","V","W","X","Y","Z">>

LowerAZ == {LowerSeq[i] : i \in 1..26}

UpperAZ == {UpperSeq[i] : i \in 1..26}

Digit == {"0","1","2","3","4","5","6","7","8","9"}

\* \s of the regular expressions (the white space the texts can hold)
Space == {" ", "\t", "\n", "\r"}

\* \w, which decides \b
WordChar == LowerAZ \cup UpperAZ \cup Digit \cup {"_"}

ToUpper == [c \in LowerAZ |-> UpperSeq[CHOOSE i \in 1..26 : LowerSeq[i] = c]]

ToLower == [c \in UpperAZ |-> LowerSeq[CHOOSE i \in 1..26 : UpperSeq[i] = c]]

\* the other case of a letter, the character itself otherwise
SwapCase(c) ==
  IF c \in LowerAZ THEN ToUpper[c]
  ELSE IF c \in UpperAZ THEN ToLower[c]
  ELSE c

\* a character matches a class; under the i flag both cases of it are tried
CharIn(c, S, ci) == c \in S \/ (ci /\ SwapCase(c) \in S)

(***************************************************************************)
(* Regular-expression nodes                                                *)
(***************************************************************************)
Cls(S) == [t |-> "set", s |-> S, xs |-> <<>>, lo |-> 0, hi |-> 0]

Ch(c) == Cls({c})

WordB == [t |-> "wb", s |-> {}, xs |-> <<>>, lo |-> 0, hi |-> 0]

Cat(xs) == [t |-> "seq", s |-> {}, xs |-> xs, lo |-> 0, hi |-> 0]

Alt(xs) == [t |-> "alt", s |-> {}, xs |-> xs, lo |-> 0, hi |-> 0]

\* x{lo,hi}, greedy; hi = -1 is "no upper limit"
Rep(x, lo, hi) == [t |-> "rep", s |-> {}, xs |-> <<x>>, lo |-> lo, hi |-> hi]

Star(x) == Rep(x, 0, -1)

Plus(x) == Rep(x, 1, -1)

Opt(x) == Rep(x, 0, 1)

\* a sequence given as a function on 1..n, as the tuple of its values (TLC
\* then computes each element once)
Tup(f) == f \o <<>>

\* a literal word
Lit(w) == Cat(Tup([i \in 1..Len(w) |-> Ch(w[i])]))

(***************************************************************************)
(* Matching                                                                *)
(***************************************************************************)
\* the values of the sequences ss[1], ss[2], ... in that order, each value
\* kept at its first occurrence only
FlatNew(ss) ==
  LET pairs == UNION {{<<k, j>> : j \in 1..Len(ss[k])} : k \in 1..Len(ss)}
      Less(p, q) == p[1] < q[1] \/ (p[1] = q[1] /\ p[2] < q[2])
      firsts == {p \in pairs :
                   \A q \in pairs : Less(q, p) => ss[q[1]][q[2]] # ss[p[1]][p[2]]}
  IN Tup([r \in 1..Cardinality(firsts) |->
            LET p == CHOOSE p \in firsts : Cardinality({q \in firsts : Less(q, p)}) = r - 1
            IN ss[p[1]][p[2]]])

Min(S) == CHOOSE x \in S : \A y \in S : x <= y

IsWordAt(text, i) == i >= 1 /\ i <= Len(text) /\ text[i] \in WordChar

\* the first position at or after i whose character is not in class S
RunStop(text, i, S, ci) ==
  Min({j \in i..Len(text) + 1 : j = Len(text) + 1 \/ ~CharIn(text[j], S, ci)})

\* [S]{lo,hi} at position i: the longest run first, then shorter ones
RunEnds(text, i, S, ci, lo, hi) ==
  LET stop == RunStop(text, i, S, ci)
      top == IF hi # -1 /\ i + hi < stop THEN i + hi ELSE stop
  IN IF top < i + lo THEN <<>> ELSE Tup([r \in 1..(top - (i + lo) + 1) |-> top - r + 1])

RECURSIVE Ends(_, _, _, _)
RECURSIVE SeqEnds(_, _, _, _, _, _)
RECURSIVE RepEnds(_, _, _, _, _)

\* the ends of the matches of node n that start at one of `starts`, in order
EndsFromAll(n, text, starts, ci) ==
  FlatNew(Tup([k \in 1..Len(starts) |-> Ends(n, text, starts[k], ci)]))

\* the nodes xs[a..b] one after the other, started at any of `starts`
SeqEnds(xs, a, b, text, starts, ci) ==
  IF a > b THEN starts
  ELSE IF a = b THEN EndsFromAll(xs[a], text, starts, ci)
  ELSE LET mid == (a + b) \div 2
           first == SeqEnds(xs, a, mid, text, starts, ci)
       IN IF first = <<>> THEN <<>> ELSE SeqEnds(xs, mid + 1, b, text, first, ci)

\* the loop n after `count` iterations, at position i: more iterations are
\* tried first (greedy), stopping here last; an iteration that consumed
\* nothing is not repeated
RepEnds(n, text, i, ci, count) ==
  LET ends == IF n.hi = -1 \/ count < n.hi THEN Ends(n.xs[1], text, i, ci) ELSE <<>>
      more == [k \in 1..Len(ends) |->
                 IF ends[k] > i THEN RepEnds(n, text, ends[k], ci, count + 1) ELSE <<>>]
  IN FlatNew(more \o <<IF count >= n.lo THEN <<i>> ELSE <<>>>>)

\* the end positions (index of the next character) of the matches of node n
\* that start at position i, best first
Ends(n, text, i, ci) ==
  CASE n.t = "set" ->
         IF i <= Len(text) /\ CharIn(text[i], n.s, ci) THEN <<i + 1>> ELSE <<>>
    [] n.t = "wb" ->
         IF IsWordAt(text, i - 1) # IsWordAt(text, i) THEN <<i>> ELSE <<>>
    [] n.t = "seq" -> SeqEnds(n.xs, 1, Len(n.xs), text, <<i>>, ci)
    [] n.t = "alt" -> FlatNew(Tup([k \in 1..Len(n.xs) |-> Ends(n.xs[k], text, i, ci)]))
    [] n.t = "rep" ->
         IF n.xs[1].t = "set"
         THEN RunEnds(text, i, n.xs[1].s, ci, n.lo, n.hi)
         ELSE RepEnds(n, text, i, ci, 0)

\* the elements of a list
Range(xs) == {xs[j] : j \in 1..Len(xs)}

\* String.prototype.trim: the string without its leading and trailing white
\* space
Trim(str) ==
  LET solid == {j \in 1..Len(str) : str[j] \notin Space}
  IN IF solid = {} THEN <<>>
     ELSE SubSeq(str, Min(solid), CHOOSE j \in solid : \A m \in solid : m <= j)

(***************************************************************************)
(* The six patterns of analyzeImage.  Each is [node, ci]: the expression   *)
(* and its i flag; all six carry the g flag.                               *)
(***************************************************************************)
D == Cls(Digit)

\* [-.\s]
Sep == Cls({"-", "."} \cup Space)

\* /\b\d{1,2}[-/]\d{1,2}[-/]\d{2,4}\b
\*  |\b(?:Jan|...|Dec)[a-z]* \d{1,2},? \d{4}\b/gi
datesPattern ==
  [ci |-> TRUE,
   node |-> Alt(<<
     Cat(<<WordB, Rep(D, 1, 2), Cls({"-", "/"}), Rep(D, 1, 2), Cls({"-", "/"}),
           Rep(D, 2, 4), WordB>>),
     Cat(<<WordB,
           Alt(<<Lit(<<"J","a","n">>), Lit(<<"F","e","b">>), Lit(<<"M","a","r">>),
                 Lit(<<"A","p","r">>), Lit(<<"M","a","y">>), Lit(<<"J","u","n">>),
                 Lit(<<"J","u","l">>), Lit(<<"A","u","g">>), Lit(<<"S","e","p">>),
                 Lit(<<"O","c","t">>), Lit(<<"N","o","v">>), Lit(<<"D","e","c">>)>>),
           Star(Cls(LowerAZ)), Ch(" "), Rep(D, 1, 2), Opt(Ch(",")), Ch(" "),
           Rep(D, 4, 4), WordB>>)>>)]

\* (?:,\d{3})*(?:\.\d{2})?
Grouped == Cat(<<Star(Cat(<<Ch(","), Rep(D, 3, 3)>>)), Opt(Cat(<<Ch("."), Rep(D, 2, 2)>>))>>)

\* /\$\d+(?:,\d{3})*(?:\.\d{2})?|\b\d+(?:,\d{3})*(?:\.\d{2})?\s*(?:USD|EUR|GBP)\b/gi
amountsPattern ==
  [ci |-> TRUE,
   node |-> Alt(<<
     Cat(<<Ch("$"), Plus(D), Grouped>>),
     Cat(<<WordB, Plus(D), Grouped, Star(Cls(Space)),
           Alt(<<Lit(<<"U","S","D">>), Lit(<<"E","U","R">>), Lit(<<"G","B","P">>)>>), WordB>>)>>)]

\* /\b[A-Za-z0-9._%+-]+@[A-Za-z0-9.-]+\.[A-Z|a-z]{2,}\b/g
emailsPattern ==
  [ci |-> FALSE,
   node |-> Cat(<<WordB,
                  Plus(Cls(UpperAZ \cup LowerAZ \cup Digit \cup {".", "_", "%", "+", "-"})),
                  Ch("@"),
                  Plus(Cls(UpperAZ \cup LowerAZ \cup Digit \cup {".", "-"})),
                  Ch("."),
                  Rep(Cls(UpperAZ \cup LowerAZ \cup {"|"}), 2, -1),
                  WordB>>)]

\* /\+?\d{1,4}[-.\s]?\(?\d{1,3}\)?[-.\s]?\d{1,4}[-.\s]?\d{1,4}[-.\s]?\d{1,9}/g
phoneNumbersPattern ==
  [ci |-> FALSE,
   node |-> Cat(<<Opt(Ch("+")), Rep(D, 1, 4), Opt(Sep),
                  Opt(Ch("(")), Rep(D, 1, 3), Opt(Ch(")")), Opt(Sep),
                  Rep(D, 1, 4), Opt(Sep), Rep(D, 1, 4), Opt(Sep), Rep(D, 1, 9)>>)]

\* /\d+\s+[A-Za-z\s,]+(?:Street|St|...|Way)[,\s]+[A-Za-z\s]+,\s*[A-Z]{2}\s*\d{5}(?:-\d{4})?/gi
addressesPattern ==
  [ci |-> TRUE,
   node |-> Cat(<<Plus(D), Plus(Cls(Space)),
                  Plus(Cls(UpperAZ \cup LowerAZ \cup Space \cup {","})),
                  Alt(<<Lit(<<"S","t","r","e","e","t">>), Lit(<<"S","t">>),
                        Lit(<<"A","v","e","n","u","e">>), Lit(<<"A","v","e">>),
                        Lit(<<"R","o","a","d">>), Lit(<<"R","d">>),
                        Lit(<<"B","o","u","l","e","v","a","r","d">>), Lit(<<"B","l","v","d">>),
                        Lit(<<"L","a","n","e">>), Lit(<<"L","n">>),
                        Lit(<<"D","r","i","v","e">>), Lit(<<"D","r">>),
                        Lit(<<"C","o","u","r","t">>), Lit(<<"C","t">>),
                        Lit(<<"C","i","r","c","l","e">>), Lit(<<"C","i","r">>),
                        Lit(<<"W","a","y">>)>>),
                  Plus(Cls(Space \cup {","})),
                  Plus(Cls(UpperAZ \cup LowerAZ \cup Space)),
                  Ch(","), Star(Cls(Space)), Rep(Cls(UpperAZ), 2, 2), Star(Cls(Space)),
                  Rep(D, 5, 5), Opt(Cat(<<Ch("-"), Rep(D, 4, 4)>>))>>)]

\* /\b(?:INV|REF|ID|NO)[-#]?\d+\b|\b[A-Z0-9]{6,}\b/gi
identifiersPattern ==
  [ci |-> TRUE,
   node |-> Alt(<<
     Cat(<<WordB, Alt(<<Lit(<<"I","N","V">>), Lit(<<"R","E","F">>), Lit(<<"I","D">>),
           Lit(<<"N","O">>)>>), Opt(Cls({"-", "#"})), Plus(D), WordB>>),
     Cat(<<WordB, Rep(Cls(UpperAZ \cup Digit), 6, -1), WordB>>)>>)]

(***************************************************************************)
(* String.prototype.match with a global pattern, and extractPatterns       *)
(***************************************************************************)
\* for every start position, the end of the match found there, 0 for none
FirstEnds(re, text) ==
  [s \in 1..Len(text) + 1 |->
     LET e == Ends(re.node, text, s, re.ci) IN IF e = <<>> THEN 0 ELSE e[1]]

RECURSIVE MatchSpans(_, _)
\* the successive matches <<start, end>> from position lastIndex on, left to
\* right; after an empty match the scan moves one character on
MatchSpans(firstEnd, lastIndex) ==
  LET found == {s \in lastIndex..Len(firstEnd) : firstEnd[s] # 0}
  IN IF found = {} THEN <<>>
     ELSE LET s == Min(found)
              e == firstEnd[s]
          IN <<<<s, e>>>> \o MatchSpans(firstEnd, IF e = s THEN e + 1 ELSE e)

\* text.match(pattern): the matched substrings, or null when there is none
\* (a global match starts with lastIndex at the beginning of the text)
StringMatch(text, re) ==
  LET spans == MatchSpans(Tup(FirstEnds(re, text)), 1)
  IN [isNull |-> spans = <<>>,
      list |-> Tup([k \in 1..Len(spans) |-> SubSeq(text, spans[k][1], spans[k][2] - 1)])]

\* (mutant) one Set shared by all calls: a value some stored result already
\* holds is dropped
SpreadSharedSet(matches) ==
  LET seen == UNION {{r.patterns[k][j] : j \in 1..Len(r.patterns[k])} :
                       r \in UNION {{result[i][j] : j \in 1..Len(result[i])} : i \in DOMAIN result},
                       k \in {"dates", "amounts", "emails", "phoneNumbers", "addresses",
                               "identifiers"}}
  IN SelectSeq(FlatNew(<<matches>>), LAMBDA v : v \notin seen)

\* (mutant) the matches as they are, duplicates kept
SpreadAll(matches) == matches

\* (mutant) the distinct values, each at its last occurrence
SpreadKeepLast(matches) ==
  LET n == Len(matches)
      back == Tup([k \in 1..n |-> matches[n + 1 - k]])
      kept == FlatNew(<<back>>)
      m == Len(kept)
  IN Tup([k \in 1..m |-> kept[m + 1 - k]])

\* [...new Set(matches)]: the distinct values in insertion order
SpreadNewSet(matches) == FlatNew(<<matches>>)

\* function extractPatterns(text, pattern)
extractPatterns(text, pattern) ==
  LET m == StringMatch(text, pattern)
      matches == IF m.isNull THEN <<>> ELSE m.list
  IN SpreadNewSet(matches)

(***************************************************************************)
(* The texts the vision model answers with                                 *)
(***************************************************************************)
\* the text of the specification's scenario A
ScenarioA ==
  <<"I","n","v","o","i","c","e"," ","#","I","N","V","-","2","0","2","4","-",
    "0","0","1"," ","d","a","t","e","d"," ","0","3","/","1","5","/","2","0",
    "2","4"," ","f","o","r"," ","$","1",",","2","5","0",".","0","0","."," ",
    "C","o","n","t","a","c","t",":"," ","j","a","n","e","@","e","x","a","m",
    "p","l","e",".","c","o","m"," ","o","r"," ","5","5","5","-","1","2","3",
    "-","4","5","6","7",".">>

\* the text of scenario C
ScenarioC ==
  <<"n","o"," ","s","t","r","u","c","t","u","r","e","d"," ","d","a","t","a",
    " ","h","e","r","e"," ","a","t"," ","a","l","l">>

\* a text with a URL, a social-media handle and a product code
LinksText ==
  <<"S","h","o","p"," ","h","t","t","p","s",":","/","/","s","h","o","p",".",
    "e","x","a","m","p","l","e",".","c","o","m","/","p","?","i","d","=","1",
    " ","b","y"," ","@","a","c","m","e","_","c","o"," ","c","o","d","e"," ",
    "A","B","-","1","2","3","4","5">>

\* a text with a match in each of the six categories; 1-2-2024 is both a
\* date and a phone number
MixedText ==
  <<"D","u","e"," ","1","-","2","-","2","0","2","4",":"," ","$","5"," ","t",
    "o"," ","a","@","b",".","c","o",","," ","R","E","F","#","7",","," ","9",
    " ","E","l","m"," ","R","o","a","d",","," ","T","r","o","y",","," ","N",
    "Y"," ","1","2","1","8","0">>

\* a text in which values repeat, in every order
RepeatsText ==
  <<"I","D","7"," ","$","6"," ","a","@","b",".","c","o"," ","$","5"," ","I",
    "D","7"," ","3","/","4","/","2","5"," ","x","@","y",".","i","o"," ","$",
    "6"," ","I","D","9"," ","1","-","2","-","2","0","2","4"," ","a","@","b",
    ".","c","o"," ","3","/","4","/","2","5"," ","$","5",","," ","5","5","5",
    "-","1","2","3","4",";"," ","5","5","5","-","1","2","3","4">>

\* a text of punctuation and control characters
GarbageText ==
  <<"\t","%","%","(","+","@","@",".",".","-","-","$","$"," ","\\","|","#",",",
    ",",")","\n","+","(">>

\* the text of scenario D
ScenarioD ==
  <<"I","n","v","o","i","c","e"," ","t","o","t","a","l"," ","d","u","e">>

\* a text with a year-first date, a dotted date and two month-name dates
DatesText ==
  <<"2","0","2","4","-","0","1","-","1","5"," ","1","5",".","0","1",".","2",
    "0","2","4"," ","J","a","n"," ","5",","," ","2","0","2","4"," ","J","a",
    "n","u","a","r","y"," ","5","t","h"," ","2","0","2","4">>

SampleTexts ==
  {ScenarioA, ScenarioC, ScenarioD, LinksText, MixedText, RepeatsText, GarbageText,
   DatesText}

Tokens == {<<"$","5"," ">>, <<"$","6"," ">>, <<"1","-","2","-","2","0","2","4"," ">>}

\* the longest text built from tokens (in tokens)
MaxTokens == 2

RECURSIVE TokenTexts(_)
\* every concatenation of at most n tokens
TokenTexts(n) ==
  IF n = 0 THEN {<<>>}
  ELSE LET shorter == TokenTexts(n - 1)
       IN shorter \cup {t \o k : t \in shorter, k \in Tokens}

Texts == SampleTexts \cup TokenTexts(MaxTokens)

\* message.content of a vision response: a string, or null
Responses == {[isNull |-> FALSE, str |-> t] : t \in Texts} \cup {[isNull |-> TRUE, str |-> <<>>]}

\* the concurrent analyzeImage calls
MaxCalls == 2

Calls == 1..MaxCalls

(***************************************************************************)
(* The prompt of analyzeImage                                              *)
(***************************************************************************)
\* const defaultPrompt = `Analyze this image and extract the following: ...`
defaultPrompt ==
  <<"A","n","a","l","y","z","e"," ","t","h","i","s"," ","i","m","a","g","e"," ","a","n","d",
    " ","e","x","t","r","a","c","t"," ","t","h","e"," ","f","o","l","l","o","w","i","n","g",
    ":","\n","1","."," ","A","l","l"," ","v","i","s","i","b","l","e"," ","t","e","x","t",
    " ","i","n"," ","a"," ","c","l","e","a","n",","," ","r","e","a","d","a","b","l","e"," ",
    "f","o","r","m","a","t","\n","2","."," ","I","d","e","n","t","i","f","y"," ","a","n",
    "d"," ","c","a","t","e","g","o","r","i","z","e"," ","t","h","e"," ","f","o","l","l","o",
    "w","i","n","g"," ","p","a","t","t","e","r","n","s"," ","i","f"," ","p","r","e","s","e",
    "n","t",":","\n"," "," "," ","-"," ","D","a","t","e","s"," ","i","n"," ","a","n","y",
    " ","f","o","r","m","a","t","\n"," "," "," ","-"," ","M","o","n","e","t","a","r","y",
    " ","a","m","o","u","n","t","s"," ","o","r"," ","n","u","m","e","r","i","c","a","l"," ",
    "v","a","l","u","e","s","\n"," "," "," ","-"," ","E","m","a","i","l"," ","a","d","d",
    "r","e","s","s","e","s","\n"," "," "," ","-"," ","P","h","o","n","e"," ","n","u","m",
    "b","e","r","s","\n"," "," "," ","-"," ","P","h","y","s","i","c","a","l"," ","a","d",
    "d","r","e","s","s","e","s","\n"," "," "," ","-"," ","A","n","y"," ","i","d","e","n",
    "t","i","f","i","e","r","s"," ","(","e",".","g",".",","," ","i","n","v","o","i","c","e",
    " ","n","u","m","b","e","r","s",","," ","r","e","f","e","r","e","n","c","e"," ","c","o",
    "d","e","s",")","\n","I","f"," ","t","h","e","r","e"," ","a","r","e"," ","t","a","b",
    "l","e","s"," ","o","r"," ","s","t","r","u","c","t","u","r","e","d"," ","d","a","t","a",
    ","," ","p","r","e","s","e","r","v","e"," ","t","h","e","i","r"," ","l","a","y","o","u",
    "t",".","\n","R","e","t","u","r","n"," ","t","h","e"," ","r","e","s","u","l","t","s",
    " ","i","n"," ","a"," ","s","t","r","u","c","t","u","r","e","d"," ","f","o","r","m","a",
    "t"," ","s","e","p","a","r","a","t","i","n","g"," ","t","h","e"," ","r","a","w"," ","t",
    "e","x","t"," ","f","r","o","m"," ","t","h","e"," ","i","d","e","n","t","i","f","i","e",
    "d"," ","p","a","t","t","e","r","n","s",".">>

\* the fixed text of the template between ${requirements} and ${defaultPrompt}
PromptGlue ==
  <<"\n","\n","A","d","d","i","t","i","o","n","a","l"," ","a","n","a","l","y","s","i","s",
    " ","r","e","q","u","i","r","e","m","e","n","t","s",":"," ">>

\* the requirements argument: undefined, or a string
NoRequirements == [isUndef |-> TRUE, str |-> <<>>]

\* the truthiness JavaScript gives the argument: undefined and "" are falsy
Truthy(requirements) == ~requirements.isUndef /\ requirements.str # <<>>

\* (mutant) the default prompt is used only when the argument is undefined
BuildPromptUnlessUndefined(requirements) ==
  IF ~requirements.isUndef
  THEN requirements.str \o PromptGlue \o defaultPrompt
  ELSE defaultPrompt

\* (mutant) the requirements take the place of the default prompt
BuildPromptReplacing(requirements) ==
  IF Truthy(requirements) THEN requirements.str \o PromptGlue ELSE defaultPrompt

\* const prompt = requirements
\*   ? `${requirements}\n\nAdditional analysis requirements: ${defaultPrompt}`
\*   : defaultPrompt
BuildPrompt(requirements) ==
  IF Truthy(requirements)
  THEN requirements.str \o PromptGlue \o defaultPrompt
  ELSE defaultPrompt

(***************************************************************************)
(* analyzeImage                                                            *)
(***************************************************************************)
\* the keys of the patterns object, in the order of the object literal
Categories == <<"dates", "amounts", "emails", "phoneNumbers", "addresses", "identifiers">>

\* (mutant) message.content as it is, null included
ContentAsIs(c) == c

\* visionResponse.choices[0].message.content || ""
ContentOrEmpty(c) == IF c.isNull \/ c.str = <<>> THEN [isNull |-> FALSE, str |-> <<>>] ELSE c

\* the values of xs that none of the lists in `earlier` holds
Without(xs, earlier) ==
  SelectSeq(xs, LAMBDA v : \A e \in earlier : \A j \in 1..Len(e) : e[j] # v)

\* (mutant) a value reported by an earlier category is left out of the later ones
AnalyzePatternsExclusive(content) ==
  LET d  == extractPatterns(content, datesPattern)
      a  == Without(extractPatterns(content, amountsPattern), {d})
      e  == Without(extractPatterns(content, emailsPattern), {d, a})
      ph == Without(extractPatterns(content, phoneNumbersPattern), {d, a, e})
      ad == Without(extractPatterns(content, addressesPattern), {d, a, e, ph})
      id == Without(extractPatterns(content, identifiersPattern), {d, a, e, ph, ad})
  IN [dates |-> d, amounts |-> a, emails |-> e, phoneNumbers |-> ph, addresses |-> ad,
      identifiers |-> id]

\* const patterns = { dates: extractPatterns(content, /.../), ... }
AnalyzePatterns(content) ==
  [dates        |-> extractPatterns(content, datesPattern),
   amounts      |-> extractPatterns(content, amountsPattern),
   emails       |-> extractPatterns(content, emailsPattern),
   phoneNumbers |-> extractPatterns(content, phoneNumbersPattern),
   addresses    |-> extractPatterns(content, addressesPattern),
   identifiers  |-> extractPatterns(content, identifiersPattern)]

\* AnalyzePatterns on the texts of the model
PatternTable == [t \in Texts |-> AnalyzePatterns(t)]

\* no call has been made
CallInit ==
  /\ pc = [i \in Calls |-> "idle"]
  /\ vision = [i \in Calls |-> "none"]
  /\ result = [i \in Calls |-> <<>>]
  /\ prompt = [i \in Calls |-> <<>>]

\* no request has been received
RouteInit ==
  /\ reqFiles = <<>>
  /\ reqBody = NoRequirements
  /\ rpc = "idle"
  /\ pos = 0
  /\ routeResults = <<>>
  /\ res = <<>>

\* the Home page as it is mounted
HomeInit ==
  /\ results = <<>>
  /\ selectedIndex = 0
  /\ tags = <<>>
  /\ isLoading = FALSE
  /\ newTag = <<>>
  /\ last = [op |-> "none", tag |-> <<>>]
  /\ progress = 0
  /\ dropped = 0
  /\ inflight = 0

\* no request has been received and the table `extractions` is empty
StoreInit ==
  /\ reqUser = 0
  /\ extractions = <<>>
  /\ ipc = "none"

\* nobody has registered
AuthInit ==
  /\ clock = 0
  /\ users = <<>>
  /\ verification_tokens = {}
  /\ issuedAt = <<>>
  /\ verificationLimiter = <<>>
  /\ sessionUser = 0
  /\ spent = {}
  /\ authReq = [op |-> "none"]
  /\ authRes = <<>>

\* no call has been made (the last conjunct holds of every state: it has TLC
\* compute the table once, before the search)
Init ==
  /\ CallInit
  /\ apiKey = TRUE
  /\ RouteInit
  /\ HomeInit
  /\ StoreInit
  /\ AuthInit
  /\ DOMAIN PatternTable = Texts

\* analyzeImage is called: the prompt is built and the vision request sent
Call(i, requirements) ==
  /\ pc[i] \in {"idle", "returned", "failed"}
  /\ pc' = [pc EXCEPT ![i] = "awaiting"]
  /\ vision' = [vision EXCEPT ![i] = "none"]
  /\ result' = [result EXCEPT ![i] = <<>>]
  /\ prompt' = [prompt EXCEPT ![i] = BuildPrompt(requirements)]
  /\ UNCHANGED <<apiKey, routeVars, homeVars, storeVars, authVars>>

\* the vision request resolves with message.content = c: the patterns are
\* extracted and {text, patterns} returned; an exception in between is caught
\* and "Failed to analyze image" thrown
VisionResolves(i, c) ==
  /\ pc[i] = "awaiting"
  /\ vision' = [vision EXCEPT ![i] = "resolved"]
  /\ UNCHANGED <<prompt, apiKey, routeVars, homeVars, storeVars, authVars>>
  /\ LET content == ContentOrEmpty(c)
     IN IF content.isNull
        THEN /\ pc' = [pc EXCEPT ![i] = "failed"]
             /\ UNCHANGED result
        ELSE /\ pc' = [pc EXCEPT ![i] = "returned"]
             /\ result' = [result EXCEPT ![i] =
                             <<[text |-> content.str, patterns |-> PatternTable[content.str]]>>]

\* the vision request rejects: the catch block throws "Failed to analyze image"
VisionRejects(i) ==
  /\ pc[i] = "awaiting"
  /\ pc' = [pc EXCEPT ![i] = "failed"]
  /\ vision' = [vision EXCEPT ![i] = "rejected"]
  /\ UNCHANGED <<result, prompt, apiKey, routeVars, homeVars, storeVars, authVars>>

Next ==
  \E i \in Calls :
    \/ Call(i, NoRequirements)
    \/ \E c \in Responses : VisionResolves(i, c)
    \/ VisionRejects(i)

Spec == Init /\ [][Next]_vars

(***************************************************************************)
(* analyzeImage with the check of the API key (the variant of part_000)    *)
(***************************************************************************)
\* text: "API key not configured. This is mock data."
MockText ==
  <<"A","P","I"," ","k","e","y"," ","n","o","t"," ","c","o","n","f","i","g","u","r","e">> \o
  <<"d","."," ","T","h","i","s"," ","i","s"," ","m","o","c","k"," ","d","a","t","a",".">>

\* the object returned when process.env.OPENAI_API_KEY is not set
MockData ==
  [text |-> MockText,
   patterns |->
     [dates        |-> <<<<"2","0","2","4","-","0","3","-","2","1">>>>,
      amounts      |-> <<<<"$","1","0","0",".","0","0">>>>,
      emails       |-> <<<<"e","x","a","m","p","l","e","@","t","e","s","t",".","c","o","m">>>>,
      phoneNumbers |-> <<<<"1","2","3","-","4","5","6","-","7","8","9","0">>>>,
      addresses    |-> <<<<"1","2","3"," ","T","e","s","t"," ","S","t">>>>,
      identifiers  |-> <<<<"I","D","1","2","3">>>>]]

\* the environment has the key or not
KeyInit ==
  /\ CallInit
  /\ apiKey \in BOOLEAN
  /\ RouteInit
  /\ HomeInit
  /\ StoreInit
  /\ AuthInit
  /\ DOMAIN PatternTable = Texts

\* if (!process.env.OPENAI_API_KEY) return {text: ..., patterns: {...}}
CallWithoutKey(i) ==
  /\ ~apiKey
  /\ pc[i] \in {"idle", "returned", "failed"}
  /\ pc' = [pc EXCEPT ![i] = "returned"]
  /\ vision' = [vision EXCEPT ![i] = "none"]
  /\ result' = [result EXCEPT ![i] = <<MockData>>]
  /\ UNCHANGED <<prompt, apiKey, routeVars, homeVars, storeVars, authVars>>

\* with the key set the call goes on to the vision request
CallWithKey(i, requirements) == apiKey /\ Call(i, requirements)

KeyNext ==
  \E i \in Calls :
    \/ CallWithoutKey(i)
    \/ CallWithKey(i, NoRequirements)
    \/ \E c \in Responses : VisionResolves(i, c)
    \/ VisionRejects(i)

KeySpec == KeyInit /\ [][KeyNext]_vars

(***************************************************************************)
(* The /api/extract handler of server/routes.ts: the uploaded files are    *)
(* analysed one after the other with analyzeImage in call slot 1.          *)
(***************************************************************************)
\* file.originalname of the uploaded files
FileNames == {"a.png", "b.png"}

\* file.buffer: the images that are uploaded
Images == {"img1", "img2"}

\* an uploaded file (the fields of it the handler reads)
Files == [originalname : FileNames, buffer : Images]

\* the most files in one request of the model
MaxFiles == 2

RECURSIVE FileListsUpTo(_)
\* every list of at most n files (two files may carry the same name, or the
\* same image)
FileListsUpTo(n) ==
  IF n = 0 THEN {<<>>}
  ELSE LET shorter == FileListsUpTo(n - 1)
       IN shorter \cup {Append(l, f) : l \in {x \in shorter : Len(x) = n - 1}, f \in Files}

FileLists == FileListsUpTo(MaxFiles)

\* the characters of the requirements of the model
ReqChars == {"a", " "}

\* the longest requirements string of the model
MaxReqLen == 2

RECURSIVE StringsUpTo(_)
\* every string of at most n of these characters
StringsUpTo(n) ==
  IF n = 0 THEN {<<>>}
  ELSE LET shorter == StringsUpTo(n - 1)
       IN shorter \cup {Append(s, c) : s \in {x \in shorter : Len(x) = n - 1}, c \in ReqChars}

\* req.body.requirements: undefined when the form has no such field
Requirements ==
  {NoRequirements} \cup {[isUndef |-> FALSE, str |-> s] : s \in StringsUpTo(MaxReqLen)}

\* message.content of the answers the vision model can give for an image
\* (the model is sampled, so one image has several)
AnswersFor(image) ==
  IF image = "img1"
  THEN {[isNull |-> TRUE, str |-> <<>>], [isNull |-> FALSE, str |-> <<"$","5"," ">>]}
  ELSE {[isNull |-> FALSE, str |-> MixedText], [isNull |-> FALSE, str |-> <<"$","6"," ">>]}

\* res.status(400).json({message: "No image files provided"})
NoFilesResponse == [status |-> 400, body |-> [message |-> "No image files provided"]]

\* res.status(500).json({message: "Failed to extract text from images"})
FailedResponse == [status |-> 500, body |-> [message |-> "Failed to extract text from images"]]

\* res.json({results})
OkResponse(rs) == [status |-> 200, body |-> [results |-> rs]]

\* the request arrives (each request runs the handler with variables of its
\* own): without files it is answered with 400, otherwise the loop starts
\* with an empty `results`
RouteReceive(files, requirements) ==
  /\ rpc = "idle"
  /\ reqFiles' = files
  /\ reqBody' = requirements
  /\ routeResults' = <<>>
  /\ IF Len(files) = 0
     THEN /\ rpc' = "done"
          /\ pos' = 0
          /\ res' = NoFilesResponse
     ELSE /\ rpc' = "loop"
          /\ pos' = 1
          /\ res' = <<>>
  /\ UNCHANGED <<callVars, apiKey, homeVars, storeVars, authVars>>

\* const base64Image = file.buffer.toString("base64")
FileInHand == reqFiles[pos]

\* const extractedData = await analyzeImage(base64Image, requirements)
RouteAnalyze ==
  /\ rpc = "loop"
  /\ pos <= Len(reqFiles)
  /\ pc[1] = "idle"
  /\ Call(1, reqBody)

\* (mutant) the entry is put in front
RoutePushFront(rs, entry) == <<entry>> \o rs

\* results.push(entry)
RoutePushEntry(rs, entry) == Append(rs, entry)

\* analyzeImage returned: the entry of the file is pushed and the loop goes
\* to the next file
RoutePush ==
  /\ rpc = "loop"
  /\ pc[1] = "returned"
  /\ routeResults' = RoutePushEntry(routeResults,
                                    [text |-> result[1][1].text,
                                     patterns |-> result[1][1].patterns,
                                     filename |-> FileInHand.originalname])
  /\ pos' = pos + 1
  /\ pc' = [pc EXCEPT ![1] = "idle"]
  /\ UNCHANGED <<vision, result, prompt, apiKey, reqFiles, reqBody, rpc, res, homeVars, storeVars, authVars>>

\* the loop is over: return res.json({results})
RouteRespond ==
  /\ rpc = "loop"
  /\ pos > Len(reqFiles)
  /\ res' = OkResponse(routeResults)
  /\ rpc' = "done"
  /\ UNCHANGED <<callVars, apiKey, reqFiles, reqBody, pos, routeResults, homeVars, storeVars, authVars>>

\* (mutant) the handler answers with the entries gathered so far
CaughtResponsePartial(rs) == OkResponse(rs)

\* the response of the handler's catch block
CaughtResponse(rs) == FailedResponse

\* analyzeImage threw: the catch block answers with status 500
RouteCatch ==
  /\ rpc = "loop"
  /\ pc[1] = "failed"
  /\ res' = CaughtResponse(routeResults)
  /\ rpc' = "done"
  /\ pc' = [pc EXCEPT ![1] = "idle"]
  /\ UNCHANGED <<vision, result, prompt, apiKey, reqFiles, reqBody, pos, routeResults, homeVars, storeVars, authVars>>

RouteNext ==
  \/ \E files \in FileLists, requirements \in Requirements : RouteReceive(files, requirements)
  \/ RouteAnalyze
  \/ pos \in 1..Len(reqFiles) /\ \E c \in AnswersFor(FileInHand.buffer) : VisionResolves(1, c)
  \/ VisionRejects(1)
  \/ RoutePush
  \/ RouteRespond
  \/ RouteCatch

RouteSpec == Init /\ [][RouteNext]_vars

(***************************************************************************)
(* The /api/extract handler that stores what it extracts (part_001): for   *)
(* a request with a session the result of each file is inserted into the   *)
(* table `extractions` before the loop goes on.  The analyzeImage call of  *)
(* the k-th file is call k.                                                *)
(***************************************************************************)
\* req.user.id of the requests of the model; 0 is a request without a session
StoreUsers == {0, 7}

\* req.body.requirements of the requests of the model
StoreRequirements == {NoRequirements, [isUndef |-> FALSE, str |-> <<"a">>]}

\* the request arrives: without files it is answered with 400, otherwise the
\* loop starts with an empty `results`
StoreReceive(files, requirements, user) ==
  /\ rpc = "idle"
  /\ reqFiles' = files
  /\ reqBody' = requirements
  /\ reqUser' = user
  /\ routeResults' = <<>>
  /\ IF Len(files) = 0
     THEN /\ rpc' = "done"
          /\ pos' = 0
          /\ res' = NoFilesResponse
     ELSE /\ rpc' = "loop"
          /\ pos' = 1
          /\ res' = <<>>
  /\ UNCHANGED <<callVars, apiKey, homeVars, extractions, ipc, authVars>>

\* (mutant) the files are analysed with Promise.all
AllAtOnce(k) == TRUE

\* for (const file of req.files) with an await in its body: the loop takes
\* up file k when the iterations of the files before it are over
InTurn(k) == pos = k

\* const extractedData = await analyzeImage(base64Image, requirements)
StoreAnalyze(k) ==
  /\ rpc = "loop"
  /\ k \in 1..Len(reqFiles)
  /\ k \in Calls
  /\ InTurn(k)
  /\ pc[k] = "idle"
  /\ Call(k, reqBody)

\* the vision request of call k settles with an answer for the image of file k
StoreVisionResolves(k) ==
  /\ k \in 1..Len(reqFiles)
  /\ \E c \in AnswersFor(reqFiles[k].buffer) : VisionResolves(k, c)

\* db.insert(extractions).values(row).returning(): the row gets the next id
InsertRow(rows, row) == Append(rows, [row EXCEPT !.id = Len(rows) + 1])

\* the values of the insert
ExtractionValues(user, extractedData, file, requirements) ==
  [id |-> 0,
   user_id |-> user,
   image_url |-> <<>>,
   extracted_text |-> extractedData.text,
   metadata |-> [filename |-> file.originalname,
                 requirements |-> requirements,
                 patterns |-> extractedData.patterns]]

\* if (req.user): the insert is sent
StoreInsert ==
  /\ rpc = "loop"
  /\ pos \in 1..Len(reqFiles)
  /\ pc[pos] = "returned"
  /\ reqUser # 0
  /\ ipc = "none"
  /\ ipc' = "inserting"
  /\ UNCHANGED <<callVars, apiKey, routeVars, homeVars, reqUser, extractions, authVars>>

\* the insert is done: extraction = saved
StoreInserted ==
  /\ ipc = "inserting"
  /\ extractions' = InsertRow(extractions,
                              ExtractionValues(reqUser, result[pos][1], FileInHand, reqBody))
  /\ ipc' = "saved"
  /\ UNCHANGED <<callVars, apiKey, routeVars, homeVars, reqUser, authVars>>

\* the insert throws
StoreInsertFails ==
  /\ ipc = "inserting"
  /\ ipc' = "failed"
  /\ UNCHANGED <<callVars, apiKey, routeVars, homeVars, reqUser, extractions, authVars>>

\* results.push({text, patterns, extraction, filename}): extraction is null
\* (here <<>>) without a session; the loop goes to the next file
StorePush ==
  /\ rpc = "loop"
  /\ pos \in 1..Len(reqFiles)
  /\ pc[pos] = "returned"
  /\ ipc = IF reqUser = 0 THEN "none" ELSE "saved"
  /\ routeResults' = RoutePushEntry(routeResults,
                       [text |-> result[pos][1].text,
                        patterns |-> result[pos][1].patterns,
                        extraction |-> IF reqUser = 0 THEN <<>>
                                       ELSE <<extractions[Len(extractions)]>>,
                        filename |-> FileInHand.originalname])
  /\ pos' = pos + 1
  /\ ipc' = "none"
  /\ UNCHANGED <<callVars, apiKey, reqFiles, reqBody, rpc, res, homeVars, reqUser,
                 extractions, authVars>>

\* (mutant) the loop runs in a transaction that the catch block rolls back
StoreCatchRollback ==
  /\ rpc = "loop"
  /\ pos \in 1..Len(reqFiles)
  /\ pc[pos] = "failed" \/ ipc = "failed"
  /\ res' = CaughtResponse(routeResults)
  /\ rpc' = "done"
  /\ extractions' = <<>>
  /\ UNCHANGED <<callVars, apiKey, reqFiles, reqBody, pos, routeResults, homeVars,
                 reqUser, ipc, authVars>>

\* analyzeImage or the insert threw: the catch block answers with status 500
\* (the rows inserted so far stay)
StoreCatch ==
  /\ rpc = "loop"
  /\ pos \in 1..Len(reqFiles)
  /\ pc[pos] = "failed" \/ ipc = "failed"
  /\ res' = CaughtResponse(routeResults)
  /\ rpc' = "done"
  /\ UNCHANGED <<callVars, apiKey, reqFiles, reqBody, pos, routeResults, homeVars,
                 storeVars, authVars>>

StoreNext ==
  \/ \E files \in FileLists, requirements \in StoreRequirements, user \in StoreUsers :
       StoreReceive(files, requirements, user)
  \/ \E k \in Calls : StoreAnalyze(k)
  \/ \E k \in Calls : StoreVisionResolves(k)
  \/ \E k \in Calls : VisionRejects(k)
  \/ StoreInsert
  \/ StoreInserted
  \/ StoreInsertFails
  \/ StorePush
  \/ RouteRespond
  \/ StoreCatch

StoreSpec == Init /\ [][StoreNext]_vars

(***************************************************************************)
(* Reading the result                                                      *)
(***************************************************************************)
\* data.patterns.<key>?.length as the client reads it: a key the patterns
\* object does not have reads as undefined, without an error
PatternsLength(patterns, key) ==
  IF key \in DOMAIN patterns
  THEN [error |-> "none", defined |-> TRUE, length |-> Len(patterns[key])]
  ELSE [error |-> "none", defined |-> FALSE, length |-> 0]

\* the keys of the client's Patterns interface
ClientKeys ==
  {"dates", "amounts", "emails", "phoneNumbers", "addresses", "identifiers",
   "urls", "socialMediaHandles", "productCodes"}

(***************************************************************************)
(* The Home page (client/src/pages/Home.tsx) and its TagManager            *)
(***************************************************************************)
TagDate == <<"d","a","t","e">>

TagAmount == <<"a","m","o","u","n","t">>

TagEmail == <<"e","m","a","i","l">>

TagPhone == <<"p","h","o","n","e">>

TagAddress == <<"a","d","d","r","e","s","s">>

TagReference == <<"r","e","f","e","r","e","n","c","e">>

\* patterns.<key>?.length as a condition: the key is there and its list is
\* not empty
HasMatches(patterns, key) ==
  LET l == PatternsLength(patterns, key) IN l.defined /\ l.length > 0

\* the tag when the condition holds, nothing otherwise
TagIf(cond, tag) == IF cond THEN <<tag>> ELSE <<>>

\* const newTags = new Set<string>(); if (firstResult.patterns) {...};
\* Array.from(newTags): the tags in the order of their insertion
HomeTags(firstResult) ==
  FlatNew(<<TagIf(HasMatches(firstResult.patterns, "dates"), TagDate),
            TagIf(HasMatches(firstResult.patterns, "amounts"), TagAmount),
            TagIf(HasMatches(firstResult.patterns, "emails"), TagEmail),
            TagIf(HasMatches(firstResult.patterns, "phoneNumbers"), TagPhone),
            TagIf(HasMatches(firstResult.patterns, "addresses"), TagAddress),
            TagIf(HasMatches(firstResult.patterns, "identifiers"), TagReference)>>)

\* the texts of the images the user uploads in the model: one with an
\* amount and a date, and the one of scenario D
HomeTexts == {<<"$","5"," ","1","-","2","-","2","0","2","4"," ">>, ScenarioD}

\* the entries the server answers with
HomeEntries ==
  {[text |-> t, patterns |-> PatternTable[t], filename |-> "a.png"] : t \in HomeTexts}

RECURSIVE EntryListsUpTo(_)
\* every list of at most n entries
EntryListsUpTo(n) ==
  IF n = 0 THEN {<<>>}
  ELSE LET shorter == EntryListsUpTo(n - 1)
       IN shorter \cup {Append(l, e) : l \in {x \in shorter : Len(x) = n - 1}, e \in HomeEntries}

\* the answers of /api/extract to an upload of at least one file
HomeResponses ==
  {OkResponse(rs) : rs \in EntryListsUpTo(MaxFiles) \ {<<>>}} \cup {FailedResponse}

\* what the user types into the TagManager's field
TagInputs == {<<>>, <<" ">>, <<" ","x"," ">>, TagDate \o <<" ">>}

\* the most onDrop and handleImageUpload calls under way at a time
MaxPending == 2

\* onDrop of the drop zone (useDropzone({disabled: isLoading})) with files:
\* the call awaits the previews its FileReaders produce
Drop ==
  /\ ~isLoading
  /\ dropped + inflight < MaxPending
  /\ dropped' = dropped + 1
  /\ last' = [op |-> "drop", tag |-> <<>>]
  /\ UNCHANGED <<results, selectedIndex, tags, isLoading, newTag, progress, inflight,
                 callVars, apiKey, routeVars, storeVars, authVars>>

\* the previews of an onDrop call are read: await onImageUpload(...), that
\* is handleImageUpload up to the awaited fetch
UploadStarts ==
  /\ dropped > 0
  /\ dropped' = dropped - 1
  /\ inflight' = inflight + 1
  /\ isLoading' = TRUE
  /\ progress' = 0
  /\ results' = <<>>
  /\ last' = [op |-> "upload", tag |-> <<>>]
  /\ UNCHANGED <<selectedIndex, tags, newTag, callVars, apiKey, routeVars, storeVars, authVars>>

\* handleImageUpload after the fetch: a response that is not ok (or a failed
\* fetch) ends in the catch block; otherwise the results are stored, the
\* first one selected and the tags derived from it; the finally block ends
\* the loading state
FetchSettles(response) ==
  /\ inflight > 0
  /\ inflight' = inflight - 1
  /\ isLoading' = FALSE
  /\ progress' = 100
  /\ IF response.status # 200
     THEN /\ last' = [op |-> "uploadFailed", tag |-> <<>>]
          /\ UNCHANGED <<results, selectedIndex, tags>>
     ELSE /\ last' = [op |-> "uploaded", tag |-> <<>>]
          /\ results' = response.body.results
          /\ selectedIndex' = 0
          /\ tags' = IF Len(response.body.results) > 0
                     THEN HomeTags(response.body.results[1])
                     ELSE tags
  /\ UNCHANGED <<newTag, dropped, callVars, apiKey, routeVars, storeVars, authVars>>

\* (mutant) selecting a result derives the tags anew from it
SelectResultRederive(index) ==
  /\ Len(results) > 1
  /\ index \in 0..Len(results) - 1
  /\ selectedIndex' = index
  /\ tags' = HomeTags(results[index + 1])
  /\ last' = [op |-> "select", tag |-> <<>>]
  /\ UNCHANGED <<results, isLoading, newTag, progress, dropped, inflight,
                 callVars, apiKey, routeVars, storeVars, authVars>>

\* onClick={() => setSelectedIndex(index)} of the buttons shown for more
\* than one result
SelectResult(index) ==
  /\ Len(results) > 1
  /\ index \in 0..Len(results) - 1
  /\ selectedIndex' = index
  /\ last' = [op |-> "select", tag |-> <<>>]
  /\ UNCHANGED <<results, tags, isLoading, newTag, progress, dropped, inflight,
                 callVars, apiKey, routeVars, storeVars, authVars>>

\* onChange={(e) => setNewTag(e.target.value)}
TypeNewTag(value) ==
  /\ newTag' = value
  /\ last' = [op |-> "type", tag |-> <<>>]
  /\ UNCHANGED <<results, selectedIndex, tags, isLoading, progress, dropped, inflight,
                 callVars, apiKey, routeVars, storeVars, authVars>>

\* (mutant) the list is searched for the text as typed
CanAddUntrimmed(ts, input) == Trim(input) # <<>> /\ input \notin Range(ts)

\* newTag.trim() && !tags.includes(newTag.trim())
CanAdd(ts, input) == Trim(input) # <<>> /\ Trim(input) \notin Range(ts)

\* setTags([...tags, tag])
handleAddTag(ts, tag) == Append(ts, tag)

\* setTags(tags.filter((t) => t !== tag))
handleRemoveTag(ts, tag) == SelectSeq(ts, LAMBDA x : x # tag)

\* the TagManager's handleAddTag (the Add button, or Enter in the field)
AddTag ==
  /\ last' = [op |-> "add", tag |-> Trim(newTag)]
  /\ IF CanAdd(tags, newTag)
     THEN /\ tags' = handleAddTag(tags, Trim(newTag))
          /\ newTag' = <<>>
     ELSE UNCHANGED <<tags, newTag>>
  /\ UNCHANGED <<results, selectedIndex, isLoading, progress, dropped, inflight,
                 callVars, apiKey, routeVars, storeVars, authVars>>

\* (mutant) removing a tag also goes back to the first result
RemoveTagAndReselect(tag) ==
  /\ tag \in Range(tags)
  /\ tags' = handleRemoveTag(tags, tag)
  /\ selectedIndex' = 0
  /\ last' = [op |-> "remove", tag |-> tag]
  /\ UNCHANGED <<results, isLoading, newTag, progress, dropped, inflight,
                 callVars, apiKey, routeVars, storeVars, authVars>>

\* onClick={() => onRemoveTag(tag)} of the X of a tag that is shown
RemoveTag(tag) ==
  /\ tag \in Range(tags)
  /\ tags' = handleRemoveTag(tags, tag)
  /\ last' = [op |-> "remove", tag |-> tag]
  /\ UNCHANGED <<results, selectedIndex, isLoading, newTag, progress, dropped, inflight,
                 callVars, apiKey, routeVars, storeVars, authVars>>

HomeNext ==
  \/ Drop
  \/ UploadStarts
  \/ \E response \in HomeResponses : FetchSettles(response)
  \/ \E index \in 0..MaxFiles : SelectResult(index)
  \/ \E value \in TagInputs : TypeNewTag(value)
  \/ AddTag
  \/ \E tag \in Range(tags) : RemoveTag(tag)

HomeSpec == Init /\ [][HomeNext]_vars

(***************************************************************************)
(* Properties                                                              *)
(***************************************************************************)
Returned(i) == pc[i] = "returned"

\* the ExtractedData call i returned
Res(i) == result[i][1]

ServerKeys == Range(Categories)

\* the matches <<start, end>> of each pattern's scan of the text
AnalyzeSpans(text) ==
  [dates        |-> MatchSpans(Tup(FirstEnds(datesPattern, text)), 1),
   amounts      |-> MatchSpans(Tup(FirstEnds(amountsPattern, text)), 1),
   emails       |-> MatchSpans(Tup(FirstEnds(emailsPattern, text)), 1),
   phoneNumbers |-> MatchSpans(Tup(FirstEnds(phoneNumbersPattern, text)), 1),
   addresses    |-> MatchSpans(Tup(FirstEnds(addressesPattern, text)), 1),
   identifiers  |-> MatchSpans(Tup(FirstEnds(identifiersPattern, text)), 1)]

SpanTable == [t \in Texts |-> AnalyzeSpans(t)]

\* the substring a span covers
Covered(text, span) == SubSeq(text, span[1], span[2] - 1)

\* C1: the patterns object of a returned result maps no category to an empty
\* array (a category without matches is absent)
C1_NoEmptyCategory ==
  \A i \in Calls :
    Returned(i) => \A k \in DOMAIN Res(i).patterns : Res(i).patterns[k] # <<>>

\* C2: for the text "no structured data here at all" no category reports a match
C2_ScenarioCEmpty ==
  \A i \in Calls :
    (Returned(i) /\ Res(i).text = ScenarioC)
      => \A k \in DOMAIN Res(i).patterns : Res(i).patterns[k] = <<>>

\* C3: for the invoice text of scenario A the identifiers hold INV-2024-001,
\* the dates 03/15/2024, the amounts $1,250.00, the emails jane@example.com
\* and the phone numbers 555-123-4567
C3_ScenarioA ==
  \A i \in Calls :
    (Returned(i) /\ Res(i).text = ScenarioA)
      => /\ <<"I","N","V","-","2","0","2","4","-","0","0","1">> \in Range(Res(i).patterns.identifiers)
         /\ <<"0","3","/","1","5","/","2","0","2","4">> \in Range(Res(i).patterns.dates)
         /\ <<"$","1",",","2","5","0",".","0","0">> \in Range(Res(i).patterns.amounts)
         /\ <<"j","a","n","e","@","e","x","a","m","p","l","e",".","c","o","m">> \in Range(Res(i).patterns.emails)
         /\ <<"5","5","5","-","1","2","3","-","4","5","6","7">> \in Range(Res(i).patterns.phoneNumbers)

\* C4: no list of a returned result holds two elements that are equal after
\* trimming white space
C4_NoDuplicates ==
  \A i \in Calls :
    Returned(i) =>
      \A k \in DOMAIN Res(i).patterns :
        LET l == Res(i).patterns[k]
        IN \A a, b \in 1..Len(l) : a # b => Trim(l[a]) # Trim(l[b])

\* C4 witness: the amount $5 occurs twice in the text and once in the list
C4_Witness ==
  \E i \in Calls :
    /\ Returned(i)
    /\ Res(i).text = <<"$","5"," ","$","5"," ">>
    /\ Len(SpanTable[Res(i).text].amounts) = 2
    /\ Res(i).patterns.amounts = <<<<"$","5">>>>

\* where in the text the value first occurs as a match of category k
FirstStart(text, k, v) ==
  Min({sp[1] : sp \in {x \in Range(SpanTable[text][k]) : Covered(text, x) = v}})

\* C5: the elements of a list are matches of the text and stand in the order
\* of their first occurrence in the left-to-right scan
C5_FirstOccurrenceOrder ==
  /\ DOMAIN SpanTable = Texts
  /\ \A i \in Calls :
       Returned(i) =>
         \A k \in DOMAIN Res(i).patterns :
           LET l == Res(i).patterns[k]
               t == Res(i).text
           IN /\ \A a \in 1..Len(l) :
                   \E sp \in Range(SpanTable[t][k]) : Covered(t, sp) = l[a]
              /\ \A a, b \in 1..Len(l) :
                   a < b => FirstStart(t, k, l[a]) < FirstStart(t, k, l[b])

\* C5 witness: 3/4/25 occurs before and after 1-2-2024, and is listed first
C5_Witness ==
  \E i \in Calls :
    /\ Returned(i)
    /\ Res(i).text = RepeatsText
    /\ Len(SpanTable[RepeatsText].dates) = 3
    /\ Res(i).patterns.dates = <<<<"3","/","4","/","2","5">>, <<"1","-","2","-","2","0","2","4">>>>

C7_NeverThrowsOnText ==
  \A i \in Calls : pc[i] = "failed" => vision[i] = "rejected"

\* C7 witness: calls returned for the text of punctuation and control
\* characters and for the empty text
C7_Witness ==
  /\ \E i \in Calls : Returned(i) /\ vision[i] = "resolved" /\ Res(i).text = GarbageText
  /\ \E i \in Calls : Returned(i) /\ vision[i] = "resolved" /\ Res(i).text = <<>>

\* C8: asking a returned result for a category outside the known set is
\* answered with an InvalidCategory error
C8_UnknownCategoryFails ==
  \A i \in Calls :
    Returned(i) =>
      \A key \in ClientKeys \ ServerKeys :
        PatternsLength(Res(i).patterns, key).error = "InvalidCategory"

\* C9: the text with a URL, a social-media handle and a product code yields
\* an entry for each of these categories
C9_NineCategories ==
  \A i \in Calls :
    (Returned(i) /\ Res(i).text = LinksText)
      => \A key \in {"urls", "socialMediaHandles", "productCodes"} :
           /\ key \in DOMAIN Res(i).patterns
           /\ Res(i).patterns[key] # <<>>

\* C10: every category lists exactly the values its own pattern matches in
\* the full text, also those another category lists
C10_Independent ==
  /\ DOMAIN SpanTable = Texts
  /\ \A i \in Calls :
       Returned(i) =>
         \A k \in ServerKeys :
           Range(Res(i).patterns[k])
             = {Covered(Res(i).text, sp) : sp \in Range(SpanTable[Res(i).text][k])}

\* C10 witness: 1-2-2024 is listed as a date and as a phone number
C10_Witness ==
  \E i \in Calls :
    /\ Returned(i)
    /\ Res(i).text = MixedText
    /\ <<"1","-","2","-","2","0","2","4">> \in Range(Res(i).patterns.dates)
    /\ <<"1","-","2","-","2","0","2","4">> \in Range(Res(i).patterns.phoneNumbers)

\* extractPatterns over every pattern, for the texts a result can carry
ReExtractTable == [t \in Texts \cup {MockText} |-> AnalyzePatterns(t)]

\* C11: the patterns of every returned result are the ones extraction yields
\* on the result's own text, the result returned without an API key included
C11_Idempotent ==
  /\ DOMAIN ReExtractTable = Texts \cup {MockText}
  /\ \A i \in Calls : Returned(i) => Res(i).patterns = ReExtractTable[Res(i).text]

\* C12: with the requirements absent or the empty string, the prompt sent is
\* exactly the default prompt
C12_DefaultPrompt ==
  \A i \in Calls :
    (prompt[i] # <<>> /\ (reqBody.isUndef \/ reqBody.str = <<>>))
      => prompt[i] = defaultPrompt

\* C12 witness: the request carried the empty string and the vision request
\* went out with the default prompt
C12_Witness ==
  /\ reqBody = [isUndef |-> FALSE, str |-> <<>>]
  /\ pc[1] = "awaiting"
  /\ prompt[1] = defaultPrompt

\* C13: with non-empty requirements u the prompt begins with u and ends,
\* after u, with the complete default prompt
C13_RequirementsFirst ==
  \A i \in Calls :
    (prompt[i] # <<>> /\ ~reqBody.isUndef /\ reqBody.str # <<>>)
      => LET u == reqBody.str
             p == prompt[i]
             n == Len(defaultPrompt)
         IN /\ Len(p) >= Len(u) + n
            /\ SubSeq(p, 1, Len(u)) = u
            /\ SubSeq(p, Len(p) - n + 1, Len(p)) = defaultPrompt

\* C13 witness: requirements of one blank went out in front of the default
\* prompt
C13_Witness ==
  /\ reqBody = [isUndef |-> FALSE, str |-> <<" ">>]
  /\ pc[1] = "awaiting"
  /\ prompt[1] = <<" ">> \o PromptGlue \o defaultPrompt

\* C19: a call whose vision request was rejected has returned nothing, and
\* the request it belongs to is answered with status 500 and no results
C19_NoExtractionOnFailure ==
  /\ \A i \in Calls : vision[i] = "rejected" => (result[i] = <<>> /\ pc[i] # "returned")
  /\ (rpc = "done" /\ vision[1] = "rejected")
       => (res.status = 500 /\ "results" \notin DOMAIN res.body)

\* C19 witness: the first file of the request was analysed, the vision
\* request of the second was rejected, and the answer is the 500 message
C19_Witness ==
  /\ rpc = "done"
  /\ vision[1] = "rejected"
  /\ Len(reqFiles) = 2
  /\ Len(routeResults) = 1
  /\ res = FailedResponse

\* the texts the answers for an image give
TextsFor(image) == {ContentOrEmpty(c).str : c \in AnswersFor(image)}

ToLowerCase(text) ==
  Tup([j \in 1..Len(text) |-> IF text[j] \in UpperAZ THEN ToLower[text[j]] ELSE text[j]])

\* String.prototype.includes
Includes(text, word) ==
  \E j \in 1..Len(text) - Len(word) + 1 : SubSeq(text, j, j + Len(word) - 1) = word

\* the keywords of the rule table with their tags
KeywordRules ==
  {<<<<"i","n","v","o","i","c","e">>, <<"i","n","v","o","i","c","e">>>>,
   <<<<"r","e","c","e","i","p","t">>, <<"r","e","c","e","i","p","t">>>>,
   <<<<"c","o","n","t","r","a","c","t">>, <<"c","o","n","t","r","a","c","t">>>>,
   <<<<"b","u","s","i","n","e","s","s"," ","c","a","r","d">>, <<"c","o","n","t","a","c","t">>>>}

\* the label of each category in the rule table
CategoryLabel ==
  [dates |-> <<"d","a","t","e">>,
   amounts |-> <<"f","i","n","a","n","c","i","a","l">>,
   emails |-> <<"e","m","a","i","l">>,
   phoneNumbers |-> <<"p","h","o","n","e">>,
   addresses |-> <<"a","d","d","r","e","s","s">>,
   identifiers |-> <<"r","e","f","e","r","e","n","c","e">>,
   urls |-> <<"w","e","b","s","i","t","e">>,
   socialMediaHandles |-> <<"s","o","c","i","a","l">>,
   productCodes |-> <<"p","r","o","d","u","c","t">>]

\* the tags have just been derived from the first result of an upload
Derived == last.op = "uploaded" /\ Len(results) > 0

\* C14: a result whose text contains a keyword of the rule table, in any
\* case, gets the keyword's tag
C14_KeywordTags ==
  Derived =>
    \A rule \in KeywordRules :
      Includes(ToLowerCase(results[1].text), rule[1]) => rule[2] \in Range(tags)

\* C15: the label of a category is among the derived tags exactly when the
\* category has a match
C15_CategoryLabels ==
  Derived =>
    \A k \in ClientKeys :
      HasMatches(results[1].patterns, k) <=> CategoryLabel[k] \in Range(tags)

\* C16: transaction is derived exactly when amounts and dates have matches,
\* order exactly when product codes and amounts have, and contact whenever
\* emails and phone numbers have
C16_Combinations ==
  Derived =>
    LET has(k) == HasMatches(results[1].patterns, k)
    IN /\ (<<"t","r","a","n","s","a","c","t","i","o","n">> \in Range(tags)) <=> (has("amounts") /\ has("dates"))
       /\ (<<"o","r","d","e","r">> \in Range(tags)) <=> (has("productCodes") /\ has("amounts"))
       /\ (has("emails") /\ has("phoneNumbers")) => <<"c","o","n","t","a","c","t">> \in Range(tags)

\* C17: the tag list holds no tag twice and no tag that is empty or blank,
\* and a tag that has just been removed is not in it
C17_TagsWellFormed ==
  /\ \A a, b \in 1..Len(tags) : a # b => tags[a] # tags[b]
  /\ \A a \in 1..Len(tags) : Trim(tags[a]) # <<>>
  /\ last.op = "remove" => last.tag \notin Range(tags)

\* C17 witness: next to derived tags the list holds the tag x, typed with
\* blanks around it; "date " has been typed and Add refused it for the tag
\* date that is there
C17_Witness ==
  /\ last = [op |-> "add", tag |-> TagDate]
  /\ newTag = TagDate \o <<" ">>
  /\ TagDate \in Range(tags)
  /\ <<"x">> \in Range(tags)
  /\ TagAmount \in Range(tags)

\* C18: adding or removing a tag leaves the results and the selected index
\* as they are, and the results change only when an upload starts or its
\* response is stored
C18_TagsApart ==
  [][/\ last'.op \in {"add", "remove"} => (results' = results /\ selectedIndex' = selectedIndex)
     /\ results' # results => last'.op \in {"upload", "uploaded"}]_vars

\* C18 witness: with the second of two results selected, a derived tag was
\* removed
C18_Witness ==
  /\ last.op = "remove"
  /\ Len(results) = 2
  /\ selectedIndex = 1
  /\ results[2].text = ScenarioD
  /\ tags # <<>>

\* the number of digits in a string
DigitCount(str) == Cardinality({k \in 1..Len(str) : str[k] \in Digit})

\* C21: every string in the phoneNumbers list of a returned result holds
\* between 7 and 15 digits
C21_PhoneDigits ==
  \A i \in Calls :
    (Returned(i) /\ "phoneNumbers" \in DOMAIN Res(i).patterns)
      => \A p \in Range(Res(i).patterns.phoneNumbers) :
           DigitCount(p) >= 7 /\ DigitCount(p) <= 15

\* C22: for the text "2024-01-15 15.01.2024 Jan 5, 2024 January 5th 2024" the
\* dates list holds each of the four dates as one complete match
C22_DateForms ==
  \A i \in Calls :
    (Returned(i) /\ Res(i).text = DatesText)
      => /\ "dates" \in DOMAIN Res(i).patterns
         /\ {<<"2","0","2","4","-","0","1","-","1","5">>,
             <<"1","5",".","0","1",".","2","0","2","4">>,
             <<"J","a","n"," ","5",","," ","2","0","2","4">>,
             <<"J","a","n","u","a","r","y"," ","5","t","h"," ","2","0","2","4">>}
              \subseteq Range(Res(i).patterns.dates)


\* the rows of the table hold the extractions of the files 1..n of the
\* request, in this order
RowsOfFiles(n) ==
  /\ Len(extractions) >= n
  /\ \A j \in 1..n :
       /\ extractions[j].user_id = reqUser
       /\ extractions[j].metadata.filename = reqFiles[j].originalname
       /\ extractions[j].extracted_text \in TextsFor(reqFiles[j].buffer)

\* C23: within one request at most one analyzeImage call is under way, and
\* the call of a file has started only when the call of every file before
\* it has returned and, for a request with a session, its row is inserted
C23_Sequential ==
  /\ Cardinality({k \in Calls : pc[k] = "awaiting"}) <= 1
  /\ \A k \in 1..Len(reqFiles) :
       (k \in Calls /\ pc[k] # "idle")
         => /\ \A j \in 1..k - 1 : pc[j] = "returned"
            /\ reqUser # 0 => RowsOfFiles(k - 1)

\* the call of the second file is under way for a request with a session
C23_Witness ==
  /\ rpc = "loop"
  /\ reqUser # 0
  /\ Len(reqFiles) >= 2
  /\ pc[2] = "awaiting"
  /\ Len(extractions) = 1

\* C26: when the analyzeImage call of file k of a request with a session has
\* failed and the response is sent, the response is status 500 without
\* results, the table holds the rows of the files 1..k-1 and nothing else,
\* and no call of a file after k was started
C26_NotAtomic ==
  \A k \in 1..Len(reqFiles) :
    (rpc = "done" /\ reqUser # 0 /\ k \in Calls /\ pc[k] = "failed")
      => /\ res = FailedResponse
         /\ "results" \notin DOMAIN res.body
         /\ Len(extractions) = k - 1
         /\ RowsOfFiles(k - 1)
         /\ \A j \in k + 1..Len(reqFiles) : j \in Calls => pc[j] = "idle"

\* the call of the second file failed after the row of the first was inserted
C26_Witness ==
  /\ rpc = "done"
  /\ reqUser # 0
  /\ Len(reqFiles) = 2
  /\ pc[2] = "failed"
  /\ res = FailedResponse
  /\ Len(extractions) = 1

\* the tag Home.tsx gives a category
HomeLabel ==
  [dates |-> TagDate, amounts |-> TagAmount, emails |-> TagEmail,
   phoneNumbers |-> TagPhone, addresses |-> TagAddress, identifiers |-> TagReference]

\* the categories in which a result has a match
MatchedKeys(entry) ==
  {k \in DOMAIN HomeLabel : k \in DOMAIN entry.patterns /\ entry.patterns[k] # <<>>}

\* C27: when the response of an upload with at least one result has been
\* stored, the tag list holds exactly the tags of the categories in which the
\* first result has a match, each once (whatever the list held before and
\* whatever the other results hold), and selecting a result leaves the tag
\* list as it is
C27_TagsFromFirst ==
  /\ [](Derived => /\ Range(tags) = {HomeLabel[k] : k \in MatchedKeys(results[1])}
                   /\ Len(tags) = Cardinality(MatchedKeys(results[1])))
  /\ [][last'.op = "select" => tags' = tags]_vars

\* C27 witness: the second of two results is selected; it has matches in
\* categories in which the first has none, and the tag list holds the tags of
\* the first result's categories only
C27_Witness ==
  /\ last.op = "select"
  /\ selectedIndex = 1
  /\ Len(results) = 2
  /\ MatchedKeys(results[1]) # {}
  /\ MatchedKeys(results[2]) \ MatchedKeys(results[1]) # {}
  /\ Range(tags) = {HomeLabel[k] : k \in MatchedKeys(results[1])}

\* C29: when the fetch of an upload has settled, isLoading is false and
\* progress is 100; no two uploads are under way at a time; and after a
\* failed upload the result list is empty
C29_UploadFinishes ==
  /\ last.op \in {"uploaded", "uploadFailed"} => (~isLoading /\ progress = 100)
  /\ inflight <= 1
  /\ last.op = "uploadFailed" => results = <<>>

(***************************************************************************)
(* Registration with e-mail verification, verification tokens in a table   *)
(* of their own (part_005).  Time is counted in hours.  A handler runs as  *)
(* one step; a token is the number of the generateVerificationToken call   *)
(* that produced it, 0 stands for a request without a token.               *)
(***************************************************************************)
\* expires.setHours(expires.getHours() + 24)
TokenLifetime == 24

\* new RateLimiterMemory({points: 3, duration: 60 * 60})
LimiterPoints == 3

\* the most users that register in a behaviour of the model
MaxUsers == 1

\* the most tokens generated in a behaviour of the model
MaxIssued == 2

\* the hour after which the model lets no more time pass
MaxClock == 48

\* the hours that pass in one step of the clock (more than the hour of the
\* rate limiter's window)
TickHours == 24

\* what the routes of setupAuth leave alone
nonAuthVars == <<callVars, apiKey, routeVars, homeVars, storeVars>>

Secret == <<"s","e","c","r","e","t">>

Hunter == <<"h","u","n","t","e","r","2">>

\* the passwords of the requests of the model, one of them too short
AuthPasswords == {Secret, Hunter, <<"p","w">>}

\* the usernames of the requests of the model
AuthUsernames == {<<"a","n","n">>, <<"b","o","b">>}

\* the e-mail addresses of the requests of the model
AuthEmails == {<<"a","@","x">>}

\* the tokens of the requests of the model: none, or one that has been or
\* will be generated for a registration (one not generated yet is a made-up
\* one)
TokenInputs == 0..MaxUsers

\* crypto.hash: the salted scrypt hash of a password
Hash(password) == [scrypt |-> password]

\* crypto.compare(suppliedPassword, storedPassword)
Compare(suppliedPassword, storedPassword) == storedPassword = Hash(suppliedPassword)

\* insertUserSchema.safeParse(req.body).success
ValidUser(username, password, email) ==
  /\ Len(username) >= 3
  /\ Len(password) >= 6
  /\ Includes(email, <<"@">>)

\* const [user] = await db.select().from(users).where(eq(users.username,
\* username)).limit(1): the id of the row, 0 for none
UserByName(username) ==
  LET found == {u \in DOMAIN users : users[u].username = username}
  IN IF found = {} THEN 0 ELSE Min(found)

\* res.status(status).json({message})
Respond(status, message) == [status |-> status, message |-> message]

\* POST /register
Register(username, password, email, mailOk) ==
  /\ authReq' = [op |-> "register", username |-> username, password |-> password, token |-> 0]
  /\ IF ~ValidUser(username, password, email)
     THEN /\ authRes' = Respond(400, "Invalid input")
          /\ UNCHANGED <<users, verification_tokens, issuedAt>>
     ELSE IF UserByName(username) # 0
     THEN /\ authRes' = Respond(400, "Username already exists")
          /\ UNCHANGED <<users, verification_tokens, issuedAt>>
     ELSE /\ Len(users) < MaxUsers
          /\ Len(issuedAt) < MaxIssued
          /\ users' = Append(users, [username |-> username,
                                     password |-> Hash(password),
                                     email |-> email,
                                     email_verified |-> FALSE])
          /\ issuedAt' = Append(issuedAt, clock)
          /\ verification_tokens' =
               verification_tokens \cup {[user_id |-> Len(users) + 1,
                                          token |-> Len(issuedAt) + 1,
                                          expires_at |-> clock + TokenLifetime]}
          /\ authRes' = IF mailOk
                         THEN Respond(200, "Registration successful. Please check your email to verify your account.")
                         ELSE Respond(500, "Failed to send verification email")
  /\ UNCHANGED <<clock, verificationLimiter, sessionUser, spent, nonAuthVars>>

\* the points the limiter has counted for a key in the running hour
Consumed(key) == IF key \in DOMAIN verificationLimiter THEN verificationLimiter[key] ELSE 0

\* (mutant) the expiry date is not looked at
NeverExpired(now, expires_at) == FALSE

\* new Date() > new Date(verificationToken.expires_at)
Expired(now, expires_at) == now > expires_at

\* GET /verify-email?token=...
VerifyEmail(token) ==
  /\ authReq' = [op |-> "verify-email", username |-> <<>>, password |-> <<>>, token |-> token,
                 spentBefore |-> token \in spent]
  /\ IF token = 0
     THEN /\ authRes' = Respond(400, "Invalid verification token")
          /\ UNCHANGED <<users, verification_tokens, verificationLimiter>>
     ELSE IF Consumed(token) >= LimiterPoints
     THEN /\ authRes' = Respond(429, "Too many verification attempts. Please try again later.")
          /\ UNCHANGED <<users, verification_tokens, verificationLimiter>>
     ELSE /\ verificationLimiter' =
               [k \in DOMAIN verificationLimiter \cup {token} |->
                  IF k = token THEN Consumed(token) + 1 ELSE verificationLimiter[k]]
          /\ LET found == {r \in verification_tokens : r.token = token}
             IN IF found = {}
                THEN /\ authRes' = Respond(400, "Invalid verification token")
                     /\ UNCHANGED <<users, verification_tokens>>
                ELSE LET verificationToken == CHOOSE r \in found : TRUE
                     IN /\ verification_tokens' = verification_tokens \ {verificationToken}
                        /\ IF Expired(clock, verificationToken.expires_at)
                           THEN /\ authRes' = Respond(400, "Verification token has expired")
                                /\ UNCHANGED users
                           ELSE /\ users' = [users EXCEPT ![verificationToken.user_id].email_verified = TRUE]
                                /\ authRes' = Respond(200, "Email verified successfully. You can now log in.")
  /\ spent' = IF authRes'.status = 200 \/ authRes'.message = "Verification token has expired"
              THEN spent \cup {token} ELSE spent
  /\ UNCHANGED <<clock, issuedAt, sessionUser, nonAuthVars>>

\* (mutant) the strategy does not look at email_verified
AnyoneMayLogIn(user) == TRUE

\* the last test of the LocalStrategy: if (!user.email_verified) return
\* done(null, false, ...)
MayLogIn(user) == user.email_verified

\* POST /login: passport.authenticate("local", cb) and req.logIn
Login(username, password, email) ==
  /\ authReq' = [op |-> "login", username |-> username, password |-> password, token |-> 0]
  /\ LET u == UserByName(username)
     IN IF ~ValidUser(username, password, email)
        THEN /\ authRes' = Respond(400, "Invalid input")
             /\ UNCHANGED sessionUser
        ELSE IF u = 0
        THEN /\ authRes' = Respond(400, "Incorrect username.")
             /\ UNCHANGED sessionUser
        ELSE IF ~Compare(password, users[u].password)
        THEN /\ authRes' = Respond(400, "Incorrect password.")
             /\ UNCHANGED sessionUser
        ELSE IF ~MayLogIn(users[u])
        THEN /\ authRes' = Respond(400, "Please verify your email address first.")
             /\ UNCHANGED sessionUser
        ELSE /\ sessionUser' = u
             /\ authRes' = Respond(200, "Login successful")
  /\ UNCHANGED <<clock, users, verification_tokens, issuedAt, verificationLimiter,
                 spent, nonAuthVars>>

\* POST /logout: req.logout
Logout ==
  /\ authReq' = [op |-> "logout", username |-> <<>>, password |-> <<>>, token |-> 0]
  /\ sessionUser' = 0
  /\ authRes' = Respond(200, "Logout successful")
  /\ UNCHANGED <<clock, users, verification_tokens, issuedAt, verificationLimiter,
                 spent, nonAuthVars>>

\* time passes: the windows of the rate limiter are over, and what is
\* handled next is a new request
Tick ==
  /\ clock < MaxClock
  /\ clock' = clock + TickHours
  /\ verificationLimiter' = <<>>
  /\ authReq' = [op |-> "none"]
  /\ authRes' = <<>>
  /\ UNCHANGED <<users, verification_tokens, issuedAt, sessionUser, spent, nonAuthVars>>

TokenNext ==
  \/ \E username \in AuthUsernames, password \in AuthPasswords, email \in AuthEmails,
        mailOk \in BOOLEAN : Register(username, password, email, mailOk)
  \/ \E token \in TokenInputs : VerifyEmail(token)
  \/ \E username \in AuthUsernames, password \in AuthPasswords, email \in AuthEmails :
       Login(username, password, email)
  \/ Logout
  \/ Tick

TokenSpec == Init /\ [][TokenNext]_vars

\* C24: a /verify-email request with a token whose 24 hours since it was
\* generated are over sets no email_verified flag
C24_ExpiredNeverVerifies ==
  [][(/\ authReq'.op = "verify-email"
      /\ authReq'.token \in 1..Len(issuedAt)
      /\ clock > issuedAt[authReq'.token] + 24)
     => \A u \in DOMAIN users : users'[u].email_verified = users[u].email_verified]_vars

\* C24 witness: a token was presented after its 24 hours and rejected as
\* expired, and its user is not verified
C24_Witness ==
  /\ authReq.op = "verify-email"
  /\ authReq.token \in 1..Len(issuedAt)
  /\ clock > issuedAt[authReq.token] + 24
  /\ authRes = Respond(400, "Verification token has expired")
  /\ \E u \in DOMAIN users : ~users[u].email_verified

\* the request of this step is a login with the password of an existing user
\* whose e-mail address is not verified
UnverifiedLogin ==
  /\ authReq'.op = "login"
  /\ UserByName(authReq'.username) # 0
  /\ Compare(authReq'.password, users[UserByName(authReq'.username)].password)
  /\ ~users[UserByName(authReq'.username)].email_verified

EmailInputs == {<<"a","@","x">>, <<"A","@","x">>, <<"b","@","x">>, <<"a","x">>, <<>>}

\* the passwords of the /complete-registration requests of the model
NewPasswords == {<<>>, Secret, Hunter}

\* randomBytes(32).toString("hex") of the k-th call, as a string: a value
\* that differs from those of the calls before
TokenString(k) == [j \in 1..k |-> "f"]

\* const [user] = await db.select().from(users).where(
\* eq(users.verification_token, token)).limit(1): the id of the row, 0 for none
UserByToken(token) ==
  LET found == {u \in DOMAIN users : users[u].verification_token = token}
  IN IF found = {} THEN 0 ELSE Min(found)

\* POST /register with the address alone: a new user, or a new token for a
\* user who is not verified
RegisterEmailFirst(username, mailOk) ==
  /\ authReq' = [op |-> "register", username |-> username, password |-> <<>>, token |-> 0]
  /\ LET existingUser == UserByName(ToLowerCase(username))
         verificationToken == Len(issuedAt) + 1
     IN IF username = <<>> \/ ~Includes(username, <<"@">>)
        THEN /\ authRes' = Respond(400, "Invalid email address")
             /\ UNCHANGED <<users, issuedAt>>
        ELSE IF existingUser # 0 /\ users[existingUser].email_verified
        THEN /\ authRes' = Respond(400, "Email address already registered")
             /\ UNCHANGED <<users, issuedAt>>
        ELSE IF existingUser # 0
        THEN /\ Len(issuedAt) < MaxIssued
             /\ issuedAt' = Append(issuedAt, clock)
             /\ users' = [users EXCEPT
                            ![existingUser].verification_token = verificationToken,
                            ![existingUser].verification_expires = <<clock + TokenLifetime>>]
             /\ authRes' = IF mailOk
                            THEN Respond(200, "Verification email resent. Please check your inbox.")
                            ELSE Respond(500, "Failed to register user")
        ELSE /\ Len(users) < MaxUsers
             /\ Len(issuedAt) < MaxIssued
             /\ issuedAt' = Append(issuedAt, clock)
             /\ users' = Append(users, [username |-> ToLowerCase(username),
                                        password |-> Hash(TokenString(verificationToken)),
                                        verification_token |-> verificationToken,
                                        verification_expires |-> <<clock + TokenLifetime>>,
                                        email_verified |-> FALSE])
             /\ authRes' = IF mailOk
                            THEN Respond(201, "Registration initiated. Please check your email to verify your account.")
                            ELSE Respond(500, "Failed to register user")
  /\ UNCHANGED <<clock, verification_tokens, verificationLimiter, sessionUser, spent, nonAuthVars>>

\* POST /complete-registration
CompleteRegistration(email, password) ==
  /\ authReq' = [op |-> "complete-registration", username |-> email, password |-> password,
                 token |-> 0]
  /\ LET user == UserByName(ToLowerCase(email))
     IN IF email = <<>> \/ password = <<>>
        THEN /\ authRes' = Respond(400, "Email and password are required")
             /\ UNCHANGED users
        ELSE IF user = 0
        THEN /\ authRes' = Respond(404, "User not found")
             /\ UNCHANGED users
        ELSE IF ~users[user].email_verified
        THEN /\ authRes' = Respond(400, "Email not verified")
             /\ UNCHANGED users
        ELSE /\ users' = [users EXCEPT ![user].password = Hash(password),
                                       ![user].verification_token = 0,
                                       ![user].verification_expires = <<>>]
             /\ authRes' = Respond(200, "Registration completed successfully")
  /\ UNCHANGED <<clock, verification_tokens, issuedAt, verificationLimiter, sessionUser,
                 spent, nonAuthVars>>

\* user.verification_expires && new Date(user.verification_expires) < new Date()
ExpiredColumn(now, verification_expires) ==
  verification_expires # <<>> /\ verification_expires[1] < now

\* GET /verify-email?token=... : the answers are redirects
VerifyEmailFirst(token) ==
  /\ authReq' = [op |-> "verify-email", username |-> <<>>, password |-> <<>>, token |-> token,
                 spentBefore |-> token \in spent]
  /\ LET user == UserByToken(token)
     IN IF token = 0 \/ user = 0
        THEN /\ authRes' = Respond(302, "Invalid verification token")
             /\ UNCHANGED users
        ELSE IF ExpiredColumn(clock, users[user].verification_expires)
        THEN /\ authRes' = Respond(302, "Verification token has expired")
             /\ UNCHANGED users
        ELSE /\ users' = [users EXCEPT ![user].email_verified = TRUE]
             /\ authRes' = Respond(302, "/complete-registration")
  /\ spent' = IF authRes'.message \in {"/complete-registration", "Verification token has expired"}
              THEN spent \cup {token} ELSE spent
  /\ UNCHANGED <<clock, verification_tokens, issuedAt, verificationLimiter, sessionUser,
                 nonAuthVars>>

\* POST /resend-verification
ResendVerification(email, mailOk) ==
  /\ authReq' = [op |-> "resend-verification", username |-> email, password |-> <<>>,
                 token |-> 0]
  /\ LET user == UserByName(ToLowerCase(email))
     IN IF email = <<>>
        THEN /\ authRes' = Respond(400, "Email is required")
             /\ UNCHANGED <<users, issuedAt>>
        ELSE IF user = 0
        THEN /\ authRes' = Respond(404, "User not found")
             /\ UNCHANGED <<users, issuedAt>>
        ELSE /\ Len(issuedAt) < MaxIssued
             /\ issuedAt' = Append(issuedAt, clock)
             /\ users' = [users EXCEPT
                            ![user].verification_token = Len(issuedAt) + 1,
                            ![user].verification_expires = <<clock + TokenLifetime>>]
             /\ authRes' = IF mailOk
                            THEN Respond(200, "Verification email sent successfully")
                            ELSE Respond(500, "Failed to resend verification email")
  /\ UNCHANGED <<clock, verification_tokens, verificationLimiter, sessionUser, spent, nonAuthVars>>

EmailFirstNext ==
  \/ \E username \in EmailInputs, mailOk \in BOOLEAN : RegisterEmailFirst(username, mailOk)
  \/ \E email \in EmailInputs, password \in NewPasswords : CompleteRegistration(email, password)
  \/ \E token \in 0..MaxIssued : VerifyEmailFirst(token)
  \/ \E email \in EmailInputs, mailOk \in BOOLEAN : ResendVerification(email, mailOk)
  \/ Tick

EmailFirstSpec == Init /\ [][EmailFirstNext]_vars

\* C28: a step changes the stored password of a user only when its request
\* carries the verification token the user's row holds
C28_PasswordNeedsToken ==
  [][\A u \in DOMAIN users :
       (u \in DOMAIN users' /\ users'[u].password # users[u].password)
         => /\ authReq'.token # 0
            /\ authReq'.token = users[u].verification_token]_vars

\* C30: a /verify-email request that presents a token which an earlier
\* /verify-email request accepted or rejected as expired is answered as an
\* invalid token
C30_SingleUse ==
  (authReq.op = "verify-email" /\ authReq.spentBefore)
    => authRes.message = "Invalid verification token"

============================================================================
